---- MODULE Spec2Model ----
(***************************************************************************)
(* Model of djblockchain's Ethereum provider (src/ethereum.py):            *)
(*   - Provider.watch / transaction_watch : the confirmation tracker       *)
(*   - Provider.write_transaction         : build, sign, broadcast, retry  *)
(*   - Provider.call                      : read-only call, output decoder *)
(*                                          and error classifier           *)
(* Each part has its own variables and its own next-state relation; the    *)
(* other parts' variables stay as Init left them.                          *)
(***************************************************************************)
EXTENDS Integers, Sequences, FiniteSets, TLC

(***************************************************************************)
(* Bounds of the model                                                     *)
(***************************************************************************)
\* highest block number the node's chain head reaches
MaxHead == 3
\* blockchain.confirmation_blocks of the provider's blockchain (configuration)
confirmation_blocks == 2
\* number of Provider.watch calls the application makes in one run (the jobs
\* they dispatch come on top)
MaxWatchCalls == 2

\* number of transaction records the submissions of one run create
MaxSubmissions == 2
\* highest count the node's getTransactionCount answers
MaxNodeCount == 2

\* stop_after_attempt(7) of the retry decorator
MaxAttempts == 7
\* the gas ceiling forced on a gas-allowance rejection
ForcedGas == 20000000
\* the JSON-RPC error code of the gas-allowance rejection
GasAllowanceCode == -32000

\* number of entries of a callable's output descriptor
MaxOutputs == 2
\* number of pieces a diagnostic string is made of
MaxChunks == 4

\* execution contexts that can run Provider.watch at the same time
Units == {1, 2}

\* postdeploy_kwargs values the application passes for its transaction: None or
\* a dict of arguments
AuxArgs == {"None", "kw"}

(***************************************************************************)
(* State of the confirmation tracker                                       *)
(***************************************************************************)
VARIABLES
    chainHead,      \* client.eth.blockNumber of the node
    chainReceipt,   \* <<>> or <<receipt>>: the node's receipt of transaction.txhash
    dbTx,           \* the persisted transaction record
    dbBlocks,       \* Block rows of self.blockchain, by primary key: their numbers
    spooled,        \* jobs waiting on the 'blockchain' queue
    wpc,            \* per unit: position in watch / transaction_watch
    wspool,         \* per unit: the spool argument
    wkwargs,        \* per unit: the postdeploy_kwargs argument
    wtx,            \* per unit: the in-memory transaction object
    wreceipt,       \* per unit: the local receipt
    wblock_number,  \* per unit: the local block_number
    wret,           \* per unit: what the invocation returned or raised
    wreorged,       \* per unit: two receipts it polled differ in their block
    hooks,          \* log of transaction.postdeploy invocations
    saves,          \* number of successful transaction.save() calls of watch
    savedFrom,      \* <<>> or <<the receipt and block_number of the last save>>
    watchCalls,     \* number of invocations started
    appKwargs       \* the postdeploy_kwargs the application passes to watch

watchVars == <<chainHead, chainReceipt, dbTx, dbBlocks, spooled, wpc, wspool,
               wkwargs, wtx, wreceipt, wblock_number, wret, wreorged, hooks,
               saves, savedFrom, watchCalls, appKwargs>>

(***************************************************************************)
(* State of the transaction submitter                                      *)
(***************************************************************************)
VARIABLES
    txRecords,      \* the Transaction rows, in creation order
    nodePool,       \* raw transactions the node accepted from sendRawTransaction
    wt              \* per call of write_transaction: its position and locals

writeVars == <<txRecords, nodePool, wt>>

(***************************************************************************)
(* State of the call executor                                              *)
(***************************************************************************)
VARIABLES
    rc              \* the call of Provider.call: its inputs and its outcome

callVars == <<rc>>

(***************************************************************************)
(* State of Provider.send                                                  *)
(***************************************************************************)
VARIABLES
    sd              \* the call of Provider.send: its arguments, position and outcome

sendVars == <<sd>>

vars == <<watchVars, writeVars, callVars, sendVars>>

\* transaction.status / receipt.status: <<>> is the unset (None) value of a
\* record that was never finalized, <<0>> and <<1>> the receipt's outcome flag
NoStatus == <<>>

\* Python truthiness of transaction.status (line 162: `if transaction.status`)
Truthy(status) == status # <<>> /\ status[1] # 0

NoBlock == <<>>

\* the record as created by the submission: nothing of the receipt on it yet
NewTransaction ==
    [pk |-> "tx1", sender |-> "A", contract_name |-> "Token",
     function |-> "transfer", args |-> <<"x">>, txhash |-> "0xh",
     status |-> NoStatus, accepted |-> FALSE, gas |-> <<>>,
     block |-> NoBlock, contract_address |-> ""]

NoReceipt == [blockNumber |-> 0, status |-> 0, gasUsed |-> 0, contractAddress |-> ""]

Receipts ==
    [blockNumber : 0..MaxHead, status : {0, 1}, gasUsed : {21},
     contractAddress : {"", "0xC"}]

\* the records submissions create: of a deployment (no function, no contract
\* address yet) or of a call to a function of a deployed contract
SubmittedTransactions ==
    {[NewTransaction EXCEPT !.function = f, !.contract_address = a] :
        f \in {"", "transfer"}, a \in {"", "0xT"}}

InitWatch ==
    /\ chainHead = 0
    /\ chainReceipt = <<>>
    /\ dbTx = NewTransaction
    /\ dbBlocks = <<>>
    /\ spooled = <<>>
    /\ wpc = [u \in Units |-> "idle"]
    /\ wspool = [u \in Units |-> FALSE]
    /\ wkwargs = [u \in Units |-> "None"]
    /\ wtx = [u \in Units |-> NewTransaction]
    /\ wreceipt = [u \in Units |-> NoReceipt]
    /\ wblock_number = [u \in Units |-> 0]
    /\ wret = [u \in Units |-> "none"]
    /\ wreorged = [u \in Units |-> FALSE]
    /\ hooks = <<>>
    /\ saves = 0
    /\ savedFrom = <<>>
    /\ watchCalls = 0
    /\ appKwargs \in AuxArgs

(***************************************************************************)
(* The node: blocks are mined, the transaction is included, and the block  *)
(* that includes it can be reorganized away, the transaction landing in a  *)
(* later block.                                                            *)
(***************************************************************************)
Mine ==
    /\ chainHead < MaxHead
    /\ chainHead' = chainHead + 1
    /\ UNCHANGED <<chainReceipt, dbTx, dbBlocks, spooled, wpc, wspool,
                   wkwargs, wtx, wreceipt, wblock_number, wret, wreorged,
                   hooks, saves, savedFrom, watchCalls, appKwargs, writeVars,
                   callVars, sendVars>>

Include ==
    /\ chainReceipt = <<>>
    /\ \E r \in Receipts :
          /\ r.blockNumber = chainHead
          /\ chainReceipt' = <<r>>
    /\ UNCHANGED <<chainHead, dbTx, dbBlocks, spooled, wpc, wspool, wkwargs,
                   wtx, wreceipt, wblock_number, wret, wreorged, hooks, saves,
                   savedFrom, watchCalls, appKwargs, writeVars, callVars, sendVars>>

Reorg ==
    /\ chainReceipt # <<>>
    /\ \E b \in 0..MaxHead :
          /\ chainReceipt[1].blockNumber < b
          /\ b <= chainHead
          /\ chainReceipt' = <<[chainReceipt[1] EXCEPT !.blockNumber = b]>>
    /\ UNCHANGED <<chainHead, dbTx, dbBlocks, spooled, wpc, wspool, wkwargs,
                   wtx, wreceipt, wblock_number, wret, wreorged, hooks, saves,
                   savedFrom, watchCalls, appKwargs, writeVars, callVars, sendVars>>

(***************************************************************************)
(* Provider.watch and transaction_watch                                    *)
(***************************************************************************)
\* A caller holding the record invokes watch(transaction, spool, postdeploy_kwargs)
WatchCall(u) ==
    /\ wpc[u] = "idle"
    /\ \A v \in Units : v < u => wpc[v] # "idle"
    /\ watchCalls < MaxWatchCalls
    /\ \E sp \in BOOLEAN : wspool' = [wspool EXCEPT ![u] = sp]
    /\ wkwargs' = [wkwargs EXCEPT ![u] = appKwargs]
    /\ wtx' = [wtx EXCEPT ![u] = dbTx]
    /\ wpc' = [wpc EXCEPT ![u] = "check"]
    /\ watchCalls' = watchCalls + 1
    /\ UNCHANGED <<chainHead, chainReceipt, dbTx, dbBlocks, spooled, wreceipt,
                   wblock_number, wret, wreorged, hooks, saves, savedFrom,
                   appKwargs, writeVars, callVars, sendVars>>

\* transaction_watch(**kwargs): a worker takes a job off the queue, loads the
\* record by pk and calls its watch(spool=False, postdeploy_kwargs=...)
transaction_watch(u) ==
    /\ wpc[u] = "idle"
    /\ \A v \in Units : v < u => wpc[v] # "idle"
    /\ spooled # <<>>
    /\ spooled' = Tail(spooled)
    /\ wspool' = [wspool EXCEPT ![u] = FALSE]
    /\ wkwargs' = [wkwargs EXCEPT ![u] = Head(spooled).postdeploy_kwargs]
    /\ wtx' = [wtx EXCEPT ![u] = dbTx]
    /\ wpc' = [wpc EXCEPT ![u] = "check"]
    /\ UNCHANGED <<chainHead, chainReceipt, dbTx, dbBlocks, wreceipt,
                   wblock_number, wret, wreorged, hooks, saves, savedFrom,
                   watchCalls, appKwargs, writeVars, callVars, sendVars>>

TransactionTypeOfBase == [module |-> "djblockchain.models", name |-> "Transaction"]

\* type(transaction): the model class of the record
TransactionType == [module |-> "app.models", name |-> "Transaction"]

SpoolJobBare(u) ==
    [callback |-> "djblockchain.ethereum.transaction_watch", queue |-> "blockchain",
     pk |-> wtx[u].pk, module |-> TransactionType.module,
     cls |-> TransactionType.name, postdeploy_kwargs |-> "None"]

\* the job Provider.watch(spool=True) hands to Caller(...).spool('blockchain')
SpoolJob(u) ==
    [callback |-> "djblockchain.ethereum.transaction_watch", queue |-> "blockchain",
     pk |-> wtx[u].pk, module |-> TransactionType.module,
     cls |-> TransactionType.name, postdeploy_kwargs |-> wkwargs[u]]

\* lines 162-173: the early return and the dispatch
WatchCheck(u) ==
    /\ wpc[u] = "check"
    /\ IF Truthy(wtx[u].status)
       THEN /\ wpc' = [wpc EXCEPT ![u] = "returned"]
            /\ wret' = [wret EXCEPT ![u] = "True"]
            /\ UNCHANGED spooled
       ELSE IF wspool[u]
       THEN /\ spooled' = Append(spooled, SpoolJob(u))
            /\ wpc' = [wpc EXCEPT ![u] = "returned"]
            /\ wret' = [wret EXCEPT ![u] = "spooled"]
       ELSE /\ wpc' = [wpc EXCEPT ![u] = "receipt"]
            /\ UNCHANGED <<spooled, wret, appKwargs, writeVars, callVars, sendVars>>
    /\ UNCHANGED <<chainHead, chainReceipt, dbTx, dbBlocks, wspool, wkwargs,
                   wtx, wreceipt, wblock_number, wreorged, hooks, saves,
                   savedFrom, watchCalls, appKwargs, writeVars, callVars, sendVars>>

\* lines 180-183 and 189-192: waitForTransactionReceipt blocks until the node
\* has a receipt
WaitForReceipt(u) ==
    /\ wpc[u] = "receipt"
    /\ chainReceipt # <<>>
    /\ wreceipt' = [wreceipt EXCEPT ![u] = chainReceipt[1]]
    /\ wreorged' = [wreorged EXCEPT ![u] =
                       \/ @
                       \/ /\ wreceipt[u] # NoReceipt
                          /\ wreceipt[u].blockNumber # chainReceipt[1].blockNumber]
    /\ wpc' = [wpc EXCEPT ![u] = "head"]
    /\ UNCHANGED <<chainHead, chainReceipt, dbTx, dbBlocks, spooled, wspool,
                   wkwargs, wtx, wblock_number, wret, hooks, saves, savedFrom,
                   watchCalls, appKwargs, writeVars, callVars, sendVars>>

\* ... or gives up after its timeout (3600 * 24) and raises TimeExhausted
WaitTimesOut(u) ==
    /\ wpc[u] = "receipt"
    /\ chainReceipt = <<>>
    /\ wpc' = [wpc EXCEPT ![u] = "raised"]
    /\ wret' = [wret EXCEPT ![u] = "TimeExhausted"]
    /\ UNCHANGED <<chainHead, chainReceipt, dbTx, dbBlocks, spooled, wspool,
                   wkwargs, wtx, wreceipt, wblock_number, wreorged, hooks,
                   saves, savedFrom, watchCalls, appKwargs, writeVars,
                   callVars, sendVars>>

ShallowOffByOne(block_number, receipt_block_number) ==
    block_number - receipt_block_number < confirmation_blocks - 1

ShallowForever(block_number, receipt_block_number) == TRUE

\* line 188: the condition of the while loop
Shallow(block_number, receipt_block_number) ==
    block_number - receipt_block_number < confirmation_blocks

\* lines 185-188 and 193-195: block_number = client.eth.blockNumber, then the
\* while condition: loop again (re-poll after time.sleep(5)) or leave the loop
ReadBlockNumber(u) ==
    /\ wpc[u] = "head"
    /\ wblock_number' = [wblock_number EXCEPT ![u] = chainHead]
    /\ IF Shallow(chainHead, wreceipt[u].blockNumber)
       THEN wpc' = [wpc EXCEPT ![u] = "receipt"]
       ELSE wpc' = [wpc EXCEPT ![u] = "finalize"]
    /\ UNCHANGED <<chainHead, chainReceipt, dbTx, dbBlocks, spooled, wspool,
                   wkwargs, wtx, wreceipt, wret, wreorged, hooks, saves,
                   savedFrom, watchCalls, appKwargs, writeVars, callVars, sendVars>>

\* primary keys of the Block rows with this number
BlockRows(rows, number) == {i \in 1..Len(rows) : rows[i] = number}

GetOrCreateRowsBlind(rows, number) == Append(rows, number)

\* Block.objects.get_or_create(blockchain=..., number=...): the rows after it
GetOrCreateRows(rows, number) ==
    IF BlockRows(rows, number) # {} THEN rows ELSE Append(rows, number)

\* ... and the row it returns ([0] of the pair)
GetOrCreateRow(rows, number) ==
    IF BlockRows(rows, number) # {}
    THEN CHOOSE i \in BlockRows(rows, number) :
            \A j \in BlockRows(rows, number) : i <= j
    ELSE Len(rows) + 1

FinalizedOverwriting(t, receipt, block) ==
    [t EXCEPT !.gas = <<receipt.gasUsed>>,
              !.block = <<block>>,
              !.contract_address = receipt.contractAddress,
              !.accepted = TRUE,
              !.status = <<receipt.status>>]

\* lines 197-205: the fields the receipt sets on the in-memory object
Finalized(t, receipt, block) ==
    [t EXCEPT !.gas = <<receipt.gasUsed>>,
              !.block = <<block>>,
              !.contract_address =
                  IF receipt.contractAddress # "" THEN receipt.contractAddress
                  ELSE t.contract_address,
              !.accepted = TRUE,
              !.status = <<receipt.status>>]

WatchFinalize(u) ==
    /\ wpc[u] = "finalize"
    /\ dbBlocks' = GetOrCreateRows(dbBlocks, wreceipt[u].blockNumber)
    /\ wtx' = [wtx EXCEPT ![u] =
                  Finalized(wtx[u], wreceipt[u],
                            GetOrCreateRow(dbBlocks, wreceipt[u].blockNumber))]
    /\ wpc' = [wpc EXCEPT ![u] = "save"]
    /\ UNCHANGED <<chainHead, chainReceipt, dbTx, spooled, wspool, wkwargs,
                   wreceipt, wblock_number, wret, wreorged, hooks, saves,
                   savedFrom, watchCalls, appKwargs, writeVars, callVars, sendVars>>

\* line 206: transaction.save() writes the object's fields to the record
WatchSave(u) ==
    /\ wpc[u] = "save"
    /\ dbTx' = wtx[u]
    /\ saves' = saves + 1
    /\ savedFrom' = <<[receipt |-> wreceipt[u], block_number |-> wblock_number[u]]>>
    /\ wpc' = [wpc EXCEPT ![u] = "refresh"]
    /\ UNCHANGED <<chainHead, chainReceipt, dbBlocks, spooled, wspool,
                   wkwargs, wtx, wreceipt, wblock_number, wret, wreorged,
                   hooks, watchCalls, appKwargs, writeVars, callVars, sendVars>>

WatchSaveFailsSwallowed(u) ==
    /\ wpc[u] = "save"
    /\ wpc' = [wpc EXCEPT ![u] = "refresh"]
    /\ UNCHANGED <<chainHead, chainReceipt, dbTx, dbBlocks, spooled, wspool,
                   wkwargs, wtx, wreceipt, wblock_number, wret, wreorged,
                   hooks, saves, savedFrom, watchCalls, appKwargs, writeVars,
                   callVars, sendVars>>

\* ... or fails: the error leaves watch
WatchSaveFails(u) ==
    /\ wpc[u] = "save"
    /\ wpc' = [wpc EXCEPT ![u] = "raised"]
    /\ wret' = [wret EXCEPT ![u] = "DatabaseError"]
    /\ UNCHANGED <<chainHead, chainReceipt, dbTx, dbBlocks, spooled, wspool,
                   wkwargs, wtx, wreceipt, wblock_number, wreorged, hooks,
                   saves, savedFrom, watchCalls, appKwargs, writeVars,
                   callVars, sendVars>>

\* line 209: transaction.refresh_from_db()
WatchRefresh(u) ==
    /\ wpc[u] = "refresh"
    /\ wtx' = [wtx EXCEPT ![u] = dbTx]
    /\ wpc' = [wpc EXCEPT ![u] = "postdeploy"]
    /\ UNCHANGED <<chainHead, chainReceipt, dbTx, dbBlocks, spooled, wspool,
                   wkwargs, wreceipt, wblock_number, wret, wreorged, hooks,
                   saves, savedFrom, watchCalls, appKwargs, writeVars,
                   callVars, sendVars>>

\* line 210: **(postdeploy_kwargs or dict())
HookKwargs(postdeploy_kwargs) ==
    IF postdeploy_kwargs = "None" THEN "{}" ELSE postdeploy_kwargs

\* line 210: transaction.postdeploy(...) is called; it returns or raises
WatchPostdeploy(u) ==
    /\ wpc[u] = "postdeploy"
    /\ hooks' = Append(hooks, [kwargs |-> HookKwargs(wkwargs[u]),
                               transaction |-> wtx[u], saved |-> saves])
    /\ \E ok \in BOOLEAN :
          /\ wpc' = [wpc EXCEPT ![u] = IF ok THEN "returned" ELSE "raised"]
          /\ wret' = [wret EXCEPT ![u] = IF ok THEN "None" ELSE "HookError"]
    /\ UNCHANGED <<chainHead, chainReceipt, dbTx, dbBlocks, spooled, wspool,
                   wkwargs, wtx, wreceipt, wblock_number, wreorged, saves,
                   savedFrom, watchCalls, appKwargs, writeVars, callVars, sendVars>>

\* the invocation is over: the unit is free for the next one
WatchLeave(u) ==
    /\ wpc[u] \in {"returned", "raised"}
    /\ wpc' = [wpc EXCEPT ![u] = "idle"]
    /\ wspool' = [wspool EXCEPT ![u] = FALSE]
    /\ wkwargs' = [wkwargs EXCEPT ![u] = "None"]
    /\ wtx' = [wtx EXCEPT ![u] = NewTransaction]
    /\ wreceipt' = [wreceipt EXCEPT ![u] = NoReceipt]
    /\ wblock_number' = [wblock_number EXCEPT ![u] = 0]
    /\ wret' = [wret EXCEPT ![u] = "none"]
    /\ wreorged' = [wreorged EXCEPT ![u] = FALSE]
    /\ UNCHANGED <<chainHead, chainReceipt, dbTx, dbBlocks, spooled, hooks,
                   saves, savedFrom, watchCalls, appKwargs, writeVars,
                   callVars, sendVars>>

NextWatch ==
    \/ Mine
    \/ Include
    \/ Reorg
    \/ \E u \in Units : WatchCall(u)
    \/ \E u \in Units : transaction_watch(u)
    \/ \E u \in Units : WatchCheck(u)
    \/ \E u \in Units : WaitForReceipt(u)
    \/ \E u \in Units : WaitTimesOut(u)
    \/ \E u \in Units : ReadBlockNumber(u)
    \/ \E u \in Units : WatchFinalize(u)
    \/ \E u \in Units : WatchSave(u)
    \/ \E u \in Units : WatchSaveFails(u)
    \/ \E u \in Units : WatchRefresh(u)
    \/ \E u \in Units : WatchPostdeploy(u)
    \/ \E u \in Units : WatchLeave(u)

\* watch(transaction, spool=True, postdeploy_kwargs): the out-of-band request
WatchSpoolCall(u) ==
    /\ WatchCall(u)
    /\ wspool'[u]

\* the tracker when every request is made with spool=True: only jobs of the
\* 'blockchain' queue run watch(spool=False)
NextSpool ==
    \/ Mine
    \/ Include
    \/ Reorg
    \/ \E u \in Units : WatchSpoolCall(u)
    \/ \E u \in Units : transaction_watch(u)
    \/ \E u \in Units : WatchCheck(u)
    \/ \E u \in Units : WaitForReceipt(u)
    \/ \E u \in Units : WaitTimesOut(u)
    \/ \E u \in Units : ReadBlockNumber(u)
    \/ \E u \in Units : WatchFinalize(u)
    \/ \E u \in Units : WatchSave(u)
    \/ \E u \in Units : WatchSaveFails(u)
    \/ \E u \in Units : WatchRefresh(u)
    \/ \E u \in Units : WatchPostdeploy(u)
    \/ \E u \in Units : WatchLeave(u)

\* watch(transaction, spool=False, postdeploy_kwargs) while no other
\* invocation is in progress
WatchAloneCall(u) ==
    /\ \A v \in Units : wpc[v] = "idle"
    /\ WatchCall(u)
    /\ ~wspool'[u]

\* the steps of an invocation that needs nothing but the processor: the node
\* answers and the database takes the save
TrackerStep(u) ==
    \/ WatchCheck(u)
    \/ WaitForReceipt(u)
    \/ ReadBlockNumber(u)
    \/ WatchFinalize(u)
    \/ WatchSave(u)
    \/ WatchRefresh(u)
    \/ WatchPostdeploy(u)

\* one inline tracker at a time, a node that answers and a database that works
NextLive ==
    \/ Mine
    \/ Include
    \/ Reorg
    \/ \E u \in Units : WatchAloneCall(u)
    \/ \E u \in Units : TrackerStep(u)
    \/ \E u \in Units : WatchLeave(u)

(***************************************************************************)
(* Provider.write_transaction under its retry decorator                    *)
(***************************************************************************)
\* write_transaction calls that can be in progress at the same time
Calls == {1, 2}

Senders == {"A", "B"}

NodeCounts == 0..MaxNodeCount

\* what estimateGas answers for the transaction built with the forced ceiling
GasEstimates == {90000}

\* messages of the node's JSON-RPC errors
GasAllowanceMessage == "gas required exceeds allowance (10000000) or always failing transaction"

Messages == {GasAllowanceMessage, "nonce too low"}

\* 'gas required exceeds allowance' in message (line 136)
ContainsGasPhrase(message) == message = GasAllowanceMessage

\* The args of a ValueError a collaborator raises:
\*   noargs   ValueError()
\*   str      ValueError("...") ; hasCode: the text contains 'code'
\*   int      ValueError(5), any first argument that is no container
\*   dict     ValueError({...}) ; code and message are <<>> when the key is absent
ValueErrorArgs ==
    {[kind |-> "noargs", hasCode |-> FALSE, code |-> <<>>, message |-> <<>>],
     [kind |-> "str", hasCode |-> FALSE, code |-> <<>>, message |-> <<>>],
     [kind |-> "str", hasCode |-> TRUE, code |-> <<>>, message |-> <<>>],
     [kind |-> "int", hasCode |-> FALSE, code |-> <<>>, message |-> <<>>]}
    \cup
    {[kind |-> "dict", hasCode |-> c # <<>>, code |-> c, message |-> m] :
        c \in {<<>>, <<GasAllowanceCode>>, <<-32601>>},
        m \in {<<>>} \cup {<<t>> : t \in Messages}}

\* what a collaborator (node RPC, web3, the signer) raises
Faults ==
    {[type |-> "ValueError", args |-> a] : a \in ValueErrorArgs}
    \cup {[type |-> "ConnectionError", args |-> NoArgs] : NoArgs \in
            {[kind |-> "noargs", hasCode |-> FALSE, code |-> <<>>, message |-> <<>>]}}

\* the errors that leave the body of write_transaction
ValueError(args) == [type |-> "ValueError", args |-> args, message |-> ""]
ValidationError(message) ==
    [type |-> "ValidationError", args |-> <<>>, message |-> message]
OtherError(type) == [type |-> type, args |-> <<>>, message |-> ""]
NoError == OtherError("none")

\* lines 135-143, the handler of the ValueError of the first buildTransaction:
\* "escalate", or the error that leaves the handler.  exc.args[0] of a
\* ValueError() is an IndexError; `'code' in 5` and "..."['code'] are
\* TypeErrors; {...}['message'] without the key is a KeyError.
InnerHandler(args) ==
    IF args.kind = "noargs" THEN [do |-> "raise", err |-> OtherError("IndexError")]
    ELSE IF args.kind = "int" THEN [do |-> "raise", err |-> OtherError("TypeError")]
    ELSE IF args.kind = "str"
    THEN IF args.hasCode
         THEN [do |-> "raise", err |-> OtherError("TypeError")]
         ELSE [do |-> "reraise", err |-> NoError]
    ELSE IF args.code # <<>> /\ args.code[1] = GasAllowanceCode
    THEN IF args.message = <<>>
         THEN [do |-> "raise", err |-> OtherError("KeyError")]
         ELSE IF ContainsGasPhrase(args.message[1])
         THEN [do |-> "escalate", err |-> NoError]
         ELSE [do |-> "reraise", err |-> NoError]
    ELSE [do |-> "reraise", err |-> NoError]

\* lines 150-155, the handler of a ValueError of the whole sequence
OuterHandler(args) ==
    IF args.kind = "noargs" \/ args.kind # "dict" THEN ValueError(args)
    ELSE IF args.message = <<>> THEN ValueError(args)
    ELSE ValidationError(args.message[1])

\* the error with which the body ends when a collaborator raises `fault`
\* outside the inner try
BodyError(fault) ==
    IF fault.type = "ValueError" THEN OuterHandler(fault.args)
    ELSE OtherError(fault.type)

EscalatesAgain(stage, args) == InnerHandler(args).do = "escalate"

\* the inner try (lines 133-134) covers the first buildTransaction only
Escalates(stage, args) == stage = "build" /\ InnerHandler(args).do = "escalate"

OptionsNonceFromNode(nonce_db, nonce) == nonce

\* line 118: 'nonce': nonce_db
OptionsNonce(nonce_db, nonce) == nonce_db

\* line 113: Transaction.objects.filter(sender__address=sender).count()
CountFor(sender) ==
    Cardinality({i \in 1..Len(txRecords) : txRecords[i].sender = sender})

\* tx.buildTransaction(options): the unsigned envelope
BuildTransaction(tx, options) == [data |-> tx, options |-> options]

\* client.eth.account.sign_transaction(built, private_key=...)
SignTransaction(built, private_key) ==
    [rawTransaction |-> [signed |-> built, by |-> private_key]]

KeccakOfUnsigned(rawTransaction) == [keccak |-> rawTransaction.signed]

\* client.toHex(client.keccak(rawTransaction))
Keccak(rawTransaction) == [keccak |-> rawTransaction]
ToHex(digest) == [hex |-> digest]

NoCounts ==
    [build |-> 0, escalate |-> 0, estimate |-> 0, rebuild |-> 0, sign |-> 0,
     send |-> 0]

IdleCall ==
    [pc |-> "idle", sender |-> "A", attempt |-> 0, nonce_db |-> <<>>,
     nonce |-> <<>>, options |-> <<>>, built |-> <<>>, signed_txn |-> <<>>,
     counts |-> NoCounts, fault |-> <<>>, err |-> NoError, raised |-> NoError,
     result |-> <<>>]

\* the locals of a fresh attempt: the decorator calls the function again
FreshAttempt(sender, attempt) ==
    [IdleCall EXCEPT !.pc = "nonce", !.sender = sender, !.attempt = attempt]

InitWrite ==
    /\ txRecords = <<>>
    /\ nodePool = {}
    /\ wt = [c \in Calls |-> IdleCall]

InFlight == {c \in Calls : wt[c].pc # "idle"}

\* Provider.send / Provider.deploy call write_transaction(sender, private_key, tx).
\* The callers hold djblockchain's lock(1) around the call (the comment of line
\* 111): a call starts when no other call is in progress.
WriteCall(c) ==
    /\ wt[c].pc = "idle"
    /\ InFlight = {}
    /\ \A d \in Calls : d < c => wt[d].pc # "idle"
    /\ Len(txRecords) < MaxSubmissions
    /\ \E sender \in Senders : wt' = [wt EXCEPT ![c] = FreshAttempt(sender, 1)]
    /\ UNCHANGED <<txRecords, nodePool, watchVars, callVars, sendVars>>

\* lines 113-119: nonce_db, nonce, options
ReadNonce(c) ==
    /\ wt[c].pc = "nonce"
    /\ \E nonce \in NodeCounts :
          wt' = [wt EXCEPT ![c] =
                    [@ EXCEPT !.nonce_db = <<CountFor(wt[c].sender)>>,
                              !.nonce = <<nonce>>,
                              !.options = [from |-> wt[c].sender,
                                           nonce |-> OptionsNonce(CountFor(wt[c].sender), nonce)],
                              !.pc = "build"]]
    /\ UNCHANGED <<txRecords, nodePool, watchVars, callVars, sendVars>>

\* line 134: built = tx.buildTransaction(options)
Build(c) ==
    /\ wt[c].pc = "build"
    /\ wt' = [wt EXCEPT ![c] =
                 [@ EXCEPT !.built = <<BuildTransaction("tx", wt[c].options)>>,
                           !.counts.build = @ + 1,
                           !.pc = "sign"]]
    /\ UNCHANGED <<txRecords, nodePool, watchVars, callVars, sendVars>>

\* counts: how many times each step of the attempt was entered
Entered(call, stage) ==
    IF stage \in DOMAIN call.counts
    THEN [call EXCEPT !.counts[stage] = @ + 1]
    ELSE call

\* the step raised and the body ends with an error
Failed(call, stage, fault, err) ==
    [Entered(call, stage) EXCEPT
        !.pc = "failed", !.fault = <<[stage |-> stage, fault |-> fault]>>,
        !.err = err]

\* lines 134-143: buildTransaction raises; the inner handler escalates (line 138:
\* options['gas'] = 20_000_000) or an error leaves the body
BuildRaises(c) ==
    /\ wt[c].pc = "build"
    /\ \E fault \in Faults :
          wt' = [wt EXCEPT ![c] =
                    IF fault.type # "ValueError"
                    THEN Failed(wt[c], "build", fault, BodyError(fault))
                    ELSE IF Escalates("build", fault.args)
                    THEN [@ EXCEPT !.options = [from |-> wt[c].options.from,
                                                nonce |-> wt[c].options.nonce,
                                                gas |-> ForcedGas],
                                   !.counts.build = @ + 1,
                                   !.counts.escalate = @ + 1,
                                   !.pc = "estbuild"]
                    ELSE IF InnerHandler(fault.args).do = "raise"
                    THEN Failed(wt[c], "build", fault, InnerHandler(fault.args).err)
                    ELSE Failed(wt[c], "build", fault, BodyError(fault))]
    /\ UNCHANGED <<txRecords, nodePool, watchVars, callVars, sendVars>>

\* line 139: tx.buildTransaction(options), the argument of estimateGas
EstimateBuild(c) ==
    /\ wt[c].pc = "estbuild"
    /\ wt' = [wt EXCEPT ![c] = [@ EXCEPT !.pc = "estimate"]]
    /\ UNCHANGED <<txRecords, nodePool, watchVars, callVars, sendVars>>

\* line 139: options['gas'] = client.eth.estimateGas(...)
EstimateGas(c) ==
    /\ wt[c].pc = "estimate"
    /\ \E gas \in GasEstimates :
          wt' = [wt EXCEPT ![c] =
                    [@ EXCEPT !.options = [from |-> wt[c].options.from,
                                                nonce |-> wt[c].options.nonce,
                                           gas |-> gas],
                              !.counts.estimate = @ + 1,
                              !.pc = "rebuild"]]
    /\ UNCHANGED <<txRecords, nodePool, watchVars, callVars, sendVars>>

\* line 141: built = tx.buildTransaction(options)
Rebuild(c) ==
    /\ wt[c].pc = "rebuild"
    /\ wt' = [wt EXCEPT ![c] =
                 [@ EXCEPT !.built = <<BuildTransaction("tx", wt[c].options)>>,
                           !.counts.rebuild = @ + 1,
                           !.pc = "sign"]]
    /\ UNCHANGED <<txRecords, nodePool, watchVars, callVars, sendVars>>

\* line 141 raises: outside the inner try, so no second escalation
RebuildRaises(c) ==
    /\ wt[c].pc = "rebuild"
    /\ \E fault \in Faults :
          wt' = [wt EXCEPT ![c] =
                    IF fault.type = "ValueError" /\ Escalates("rebuild", fault.args)
                    THEN [@ EXCEPT !.options = [from |-> wt[c].options.from,
                                                nonce |-> wt[c].options.nonce,
                                                gas |-> ForcedGas],
                                   !.counts.rebuild = @ + 1,
                                   !.counts.escalate = @ + 1,
                                   !.pc = "estbuild"]
                    ELSE Failed(wt[c], "rebuild", fault, BodyError(fault))]
    /\ UNCHANGED <<txRecords, nodePool, watchVars, callVars, sendVars>>

\* lines 145-148: signed_txn = sign_transaction(built, private_key=private_key)
Sign(c) ==
    /\ wt[c].pc = "sign"
    /\ wt' = [wt EXCEPT ![c] =
                 [@ EXCEPT !.signed_txn = <<SignTransaction(wt[c].built[1], "key")>>,
                           !.counts.sign = @ + 1,
                           !.pc = "send"]]
    /\ UNCHANGED <<txRecords, nodePool, watchVars, callVars, sendVars>>

\* lines 149 and 157-159: sendRawTransaction accepts the payload; the call
\* returns toHex(keccak(signed_txn.rawTransaction))
Send(c) ==
    /\ wt[c].pc = "send"
    /\ nodePool' = nodePool \cup {wt[c].signed_txn[1].rawTransaction}
    /\ wt' = [wt EXCEPT ![c] =
                 [@ EXCEPT !.result = <<ToHex(Keccak(wt[c].signed_txn[1].rawTransaction))>>,
                           !.counts.send = @ + 1,
                           !.pc = "returned"]]
    /\ UNCHANGED <<txRecords, watchVars, callVars, sendVars>>

\* getTransactionCount, the buildTransaction or estimateGas of line 139,
\* sign_transaction or sendRawTransaction raises: lines 150-155 or no handler
StepRaises(c) ==
    /\ wt[c].pc \in {"nonce", "estbuild", "estimate", "sign", "send"}
    /\ \E fault \in Faults :
          wt' = [wt EXCEPT ![c] =
                    Failed(wt[c], wt[c].pc, fault, BodyError(fault))]
    /\ UNCHANGED <<txRecords, nodePool, watchVars, callVars, sendVars>>

ShouldStopLate(attempt) == attempt >= MaxAttempts + 1

\* line 105: stop=stop_after_attempt(7)
ShouldStop(attempt) == attempt >= MaxAttempts

StopOutcomeWrapped(err) == OtherError("RetryError")

\* line 105: reraise=True: the last attempt's error, not a RetryError
StopOutcome(err) == err

\* line 105: the decorator after a failed attempt: give up, or wait_fixed(2)
\* and call the function again
Retry(c) ==
    /\ wt[c].pc = "failed"
    /\ wt' = [wt EXCEPT ![c] =
                 IF ShouldStop(wt[c].attempt)
                 THEN [@ EXCEPT !.pc = "raised", !.raised = StopOutcome(wt[c].err)]
                 ELSE FreshAttempt(wt[c].sender, wt[c].attempt + 1)]
    /\ UNCHANGED <<txRecords, nodePool, watchVars, callVars, sendVars>>

\* the submission succeeded: its transaction record exists from now on
RecordSubmission(c) ==
    /\ wt[c].pc = "returned"
    /\ txRecords' = Append(txRecords, [sender |-> wt[c].sender,
                                       nonce |-> wt[c].options.nonce,
                                       txhash |-> wt[c].result[1]])
    /\ wt' = [wt EXCEPT ![c] = IdleCall]
    /\ UNCHANGED <<nodePool, watchVars, callVars, sendVars>>

\* the error reached the caller: nothing is recorded
WriteGivesUp(c) ==
    /\ wt[c].pc = "raised"
    /\ wt' = [wt EXCEPT ![c] = IdleCall]
    /\ UNCHANGED <<txRecords, nodePool, watchVars, callVars, sendVars>>

NextWrite ==
    \/ \E c \in Calls : WriteCall(c)
    \/ \E c \in Calls : ReadNonce(c)
    \/ \E c \in Calls : Build(c)
    \/ \E c \in Calls : BuildRaises(c)
    \/ \E c \in Calls : EstimateBuild(c)
    \/ \E c \in Calls : EstimateGas(c)
    \/ \E c \in Calls : Rebuild(c)
    \/ \E c \in Calls : RebuildRaises(c)
    \/ \E c \in Calls : Sign(c)
    \/ \E c \in Calls : Send(c)
    \/ \E c \in Calls : StepRaises(c)
    \/ \E c \in Calls : Retry(c)
    \/ \E c \in Calls : RecordSubmission(c)
    \/ \E c \in Calls : WriteGivesUp(c)

\* write_transaction itself takes no lock (lines 106-119): without the callers'
\* lock a call starts while another one is in progress
WriteCallUnlocked(c) ==
    /\ wt[c].pc = "idle"
    /\ \A d \in Calls : d < c => wt[d].pc # "idle"
    /\ Len(txRecords) + Cardinality(InFlight) < MaxSubmissions
    /\ \E sender \in Senders : wt' = [wt EXCEPT ![c] = FreshAttempt(sender, 1)]
    /\ UNCHANGED <<txRecords, nodePool, watchVars, callVars, sendVars>>

\* the node's answer to a payload whose nonce it does not take
NonceTooLow ==
    [type |-> "ValueError",
     args |-> [kind |-> "dict", hasCode |-> TRUE, code |-> <<GasAllowanceCode>>,
               message |-> <<"nonce too low">>]]

\* line 149: sendRawTransaction rejects the payload; lines 150-155
SendRejected(c) ==
    /\ wt[c].pc = "send"
    /\ wt' = [wt EXCEPT ![c] = Failed(wt[c], "send", NonceTooLow, BodyError(NonceTooLow))]
    /\ UNCHANGED <<txRecords, nodePool, watchVars, callVars, sendVars>>

\* the submitter without the callers' lock: calls interleave; the node takes
\* or rejects each broadcast
NextWriteRace ==
    \/ \E c \in Calls : WriteCallUnlocked(c)
    \/ \E c \in Calls : ReadNonce(c)
    \/ \E c \in Calls : Build(c)
    \/ \E c \in Calls : Sign(c)
    \/ \E c \in Calls : Send(c)
    \/ \E c \in Calls : SendRejected(c)
    \/ \E c \in Calls : Retry(c)
    \/ \E c \in Calls : RecordSubmission(c)
    \/ \E c \in Calls : WriteGivesUp(c)

(***************************************************************************)
(* Provider.send: resolve the function, convert the arguments, submit      *)
(***************************************************************************)
\* the functions of the contract's ABI and the names send is called with
ContractFunctions == {"transfer"}
FunctionNames == {"transfer", "missing"}

\* the input types of the contract's function and the arguments of a call
InputTypes == <<"bytes32", "uint256">>
SendArgs == {<<"0xab", 5>>}

\* line 65: Contract.find_functions_by_name(function_name)
FindFunctionsByName(function_name) ==
    IF function_name \in ContractFunctions THEN <<function_name>> ELSE <<>>

NoFuncsNever(funcs) == FALSE

\* line 66: `if not funcs`
NoFuncs(funcs) == funcs = <<>>

\* line 67: Exception(f'{function_name} not found in {contract_name}')
NotFound(function_name, contract_name) ==
    [type |-> "Exception", args |-> <<function_name, "not found in", contract_name>>,
     message |-> ""]

\* lines 74-76: client.toBytes(hexstr=...) for the inputs whose type starts
\* with bytes32
ToBytesArgs(args) ==
    [i \in 1..Len(args) |->
        IF i <= Len(InputTypes) /\ InputTypes[i] = "bytes32"
        THEN [bytes |-> args[i]] ELSE args[i]]

IdleSend ==
    [pc |-> "idle", sender |-> "A", function_name |-> "transfer", args |-> <<>>,
     resolutions |-> 0, wrote |-> FALSE, result |-> <<>>, err |-> NoError]

InitSend == sd = IdleSend

\* Provider.send(sender, private_key, contract_name, contract_address,
\* function_name, *args)
SendCall ==
    /\ sd.pc = "idle"
    /\ InFlight = {}
    /\ Len(txRecords) < MaxSubmissions
    /\ \E sender \in Senders, function_name \in FunctionNames, args \in SendArgs :
          sd' = [IdleSend EXCEPT !.pc = "resolve", !.sender = sender,
                                 !.function_name = function_name, !.args = args]
    /\ UNCHANGED <<watchVars, writeVars, callVars>>

\* lines 60-69: the contract and its functions of that name; none: the
\* Exception of line 67
SendResolve ==
    /\ sd.pc = "resolve"
    /\ sd' = IF NoFuncs(FindFunctionsByName(sd.function_name))
             THEN [sd EXCEPT !.pc = "raised", !.resolutions = @ + 1,
                             !.err = NotFound(sd.function_name, "Token")]
             ELSE [sd EXCEPT !.pc = "convert", !.resolutions = @ + 1]
    /\ UNCHANGED <<watchVars, writeVars, callVars>>

\* lines 71-78: the arguments, bytes32 inputs converted, and tx = func(*args)
SendConvert ==
    /\ sd.pc = "convert"
    /\ sd' = [sd EXCEPT !.pc = "write", !.args = ToBytesArgs(sd.args)]
    /\ UNCHANGED <<watchVars, writeVars, callVars>>

\* line 80: result = self.write_transaction(sender, private_key, tx)
SendWrite ==
    /\ sd.pc = "write"
    /\ wt[1].pc = "idle"
    /\ wt' = [wt EXCEPT ![1] = FreshAttempt(sd.sender, 1)]
    /\ sd' = [sd EXCEPT !.pc = "writing", !.wrote = TRUE]
    /\ UNCHANGED <<txRecords, nodePool, watchVars, callVars>>

\* lines 80-88: write_transaction returned: send returns its result
SendReturns ==
    /\ sd.pc = "writing"
    /\ wt[1].pc = "returned"
    /\ sd' = [sd EXCEPT !.pc = "returned", !.result = wt[1].result]
    /\ UNCHANGED <<watchVars, writeVars, callVars>>

\* line 80: write_transaction raised: the error leaves send
SendRaises ==
    /\ sd.pc = "writing"
    /\ wt[1].pc = "raised"
    /\ sd' = [sd EXCEPT !.pc = "raised", !.err = wt[1].raised]
    /\ UNCHANGED <<watchVars, writeVars, callVars>>

\* the caller has the outcome of send
SendLeave ==
    /\ sd.pc \in {"returned", "raised"}
    /\ wt[1].pc = "idle"
    /\ sd' = IdleSend
    /\ UNCHANGED <<watchVars, writeVars, callVars>>

\* the steps of the write_transaction call that send made
WriteOfSend(c) ==
    /\ sd.pc \in {"writing", "returned", "raised"}
    /\ \/ ReadNonce(c)
       \/ Build(c)
       \/ Sign(c)
       \/ Send(c)
       \/ SendRejected(c)
       \/ Retry(c)
       \/ (sd.pc = "returned" /\ RecordSubmission(c))
       \/ (sd.pc = "raised" /\ WriteGivesUp(c))

NextSend ==
    \/ SendCall
    \/ SendResolve
    \/ SendConvert
    \/ SendWrite
    \/ SendReturns
    \/ SendRaises
    \/ SendLeave
    \/ \E c \in Calls : WriteOfSend(c)

(***************************************************************************)
(* Provider.call: the read-only call, the output decoder and the error     *)
(* classifier                                                              *)
(***************************************************************************)
\* ---- the error classifier (lines 253-260) ----
\* Characters of a diagnostic string.  "\\" is the backslash; "0", "c", "x" and
\* "b" are in the class [0-9a-z]; "M", "'" and " " are not.
Backslash == "\\"

InClass(ch) == ch \in {"0", "c", "x", "b"}

\* the pieces the diagnostic strings of the model are made of: the b' that
\* opens a bytes literal, an escaped byte \x00, a lone backslash, a lowercase
\* letter, an uppercase letter, a space
Chunks ==
    {<<"b", "'">>, <<Backslash, "x", "0", "0">>, <<Backslash>>, <<"c">>, <<"M">>,
     <<" ">>}

RECURSIVE Flatten(_)
Flatten(chunks) ==
    IF chunks = <<>> THEN <<>> ELSE Head(chunks) \o Flatten(Tail(chunks))

Diagnostics ==
    {Flatten(cs) : cs \in UNION {[1..n -> Chunks] : n \in 0..MaxChunks}}

\* [0-9a-z]{n} at position i
ClassRun(s, i, n) ==
    /\ i + n - 1 <= Len(s)
    /\ \A k \in i..(i + n - 1) : InClass(s[k])

\* the position after [\\]x[0-9a-z]{n} and, with sp = 1, a space, at position
\* i; 0 when it does not match there
GroupEnd(s, i, n, sp) ==
    IF /\ i + 1 <= Len(s)
       /\ s[i] = Backslash
       /\ s[i + 1] = "x"
       /\ ClassRun(s, i + 2, n)
       /\ (sp = 1 => (i + 2 + n <= Len(s) /\ s[i + 2 + n] = " "))
    THEN i + 2 + n + sp
    ELSE 0

\* (?P<msg>[^\\]+) at position j: it matches when a character that is no
\* backslash is there
MsgAt(s, j) == j <= Len(s) /\ s[j] # Backslash

\* the alternatives of one group in the order the backtracking matcher tries
\* them: {2,3} and " ?" are greedy
GroupChoices == <<<<3, 1>>, <<3, 0>>, <<2, 1>>, <<2, 0>>>>

RECURSIVE GroupsThenMsg(_, _)
RECURSIVE TryChoice(_, _, _)

\* after a group that ends before position j: "+" is greedy, so another group
\* is tried before the msg
AfterGroup(s, j) ==
    LET more == GroupsThenMsg(s, j)
    IN  IF more # 0 THEN more ELSE IF MsgAt(s, j) THEN j ELSE 0

\* the n-th alternative of a group at position i and, if what follows fails,
\* the next ones
TryChoice(s, i, n) ==
    IF n > Len(GroupChoices) THEN 0
    ELSE LET j == GroupEnd(s, i, GroupChoices[n][1], GroupChoices[n][2])
             r == IF j = 0 THEN 0 ELSE AfterGroup(s, j)
         IN  IF r # 0 THEN r ELSE TryChoice(s, i, n + 1)

\* ([\\]x[0-9a-z]{2,3} ?)+(?P<msg>[^\\]+) at position i: the position where
\* msg starts in the first match the matcher finds, 0 when there is none
GroupsThenMsg(s, i) == TryChoice(s, i, 1)

\* .*b' : the greedy .* makes the last b' that leads to a match the one used
MsgStart(s) ==
    LET starts == {k \in 1..Len(s) :
                      /\ k + 1 <= Len(s)
                      /\ s[k] = "b"
                      /\ s[k + 1] = "'"
                      /\ GroupsThenMsg(s, k + 2) # 0}
    IN  IF starts = {} THEN 0
        ELSE GroupsThenMsg(s, (CHOOSE k \in starts : \A m \in starts : m <= k) + 2)

\* [^\\]+ is greedy: msg runs to the character before the next backslash
MsgEnd(s, j) ==
    CHOOSE e \in j..Len(s) :
        /\ \A k \in j..e : s[k] # Backslash
        /\ (e = Len(s) \/ s[e + 1] = Backslash)

ClassifyRaw(message) == message

\* lines 253-260: the argument of the Exception that is raised: msg.group('msg')
\* when re.match finds the pattern in e.args[0], e.args[0] itself when not
Classify(message) ==
    IF MsgStart(message) = 0 THEN message
    ELSE SubSeq(message, MsgStart(message), MsgEnd(message, MsgStart(message)))

\* lines 226-248: the exception classes of the except clause
KnownCategories ==
    {"BadFunctionCallOutput", "BlockNotFound", "BlockNumberOutofRange",
     "CannotHandleRequest", "FallbackNotFound", "InfuraKeyNotFound",
     "InsufficientData", "InvalidAddress", "InvalidEventABI", "LogTopicError",
     "ManifestValidationError", "MismatchedABI", "NameNotFound",
     "NoABIEventsFound", "NoABIFound", "NoABIFunctionsFound", "PMError",
     "StaleBlockchain", "TimeExhausted", "TransactionNotFound",
     "ValidationError"}

\* exception classes the except clause does not name
OtherCategories == {"ValueError", "ConnectionError"}

\* ---- the output decoder (lines 263-277) ----
OutputNames == {"", "a", "b"}

\* ABI types, as the pieces of their name
OutputTypes == {<<"uint256">>, <<"bytes32">>, <<"bytes32", "[]">>}

Outputs == [name : OutputNames, type : OutputTypes]

OutputDescriptors == UNION {[1..n -> Outputs] : n \in 0..MaxOutputs}

\* type.startswith('bytes32')
StartsWithBytes32(type) == Head(type) = "bytes32"

\* the value web3 decodes for output i of this type: an int, a bytes object
\* or a list of bytes objects
Decoded(type, i) ==
    IF type = <<"uint256">> THEN [py |-> "int", v |-> <<i>>]
    ELSE IF type = <<"bytes32">> THEN [py |-> "bytes", v |-> <<i>>]
    ELSE [py |-> "list", v |-> <<i>>]

\* value.hex(): bytes have it, ints and lists do not (AttributeError)
HasHex(value) == value.py = "bytes"
Hex(value) == [py |-> "str", v |-> <<"hex", value.v>>]

\* func(*args).call(): the bare value for one output, the list of values otherwise
CallResult(outputs) ==
    IF Len(outputs) = 1 THEN Decoded(outputs[1].type, 1)
    ELSE [i \in 1..Len(outputs) |-> Decoded(outputs[i].type, i)]

Returns(shape, value) == [kind |-> "return", shape |-> shape, value |-> value]
Raises(type, arg) == [kind |-> "raise", type |-> type, arg |-> arg]

\* lines 265-267 and 273-276: one output of the result
Converted(type, value) == IF StartsWithBytes32(type) THEN Hex(value) ELSE value
Convertible(type, value) == StartsWithBytes32(type) => HasHex(value)

\* the last entry of the descriptor with this name: a later output[name] = ...
\* replaces an earlier one
LastNamed(outputs, name) ==
    CHOOSE i \in 1..Len(outputs) :
        /\ outputs[i].name = name
        /\ \A j \in 1..Len(outputs) : outputs[j].name = name => j <= i

\* lines 263-277: what call returns for the result of the node
Decode(outputs, result) ==
    IF Len(outputs) = 1
    THEN IF Convertible(outputs[1].type, result)
         THEN Returns("value", Converted(outputs[1].type, result))
         ELSE Raises("AttributeError", <<>>)
    ELSE IF \A i \in 1..Len(outputs) : Convertible(outputs[i].type, result[i])
    THEN Returns("mapping",
                 [name \in {outputs[i].name : i \in 1..Len(outputs)} |->
                     Converted(outputs[LastNamed(outputs, name)].type,
                               result[LastNamed(outputs, name)])])
    ELSE Raises("AttributeError", <<>>)

IdleRead == [pc |-> "idle", outputs |-> <<>>, raised |-> <<>>, outcome |-> <<>>]

InitCall == rc = IdleRead

\* lines 225 and 263-277: the node answers and the result is decoded
CallReturns ==
    /\ rc.pc = "idle"
    /\ \E outputs \in OutputDescriptors :
          rc' = [pc |-> "done", outputs |-> outputs, raised |-> <<>>,
                 outcome |-> <<Decode(outputs, CallResult(outputs))>>]
    /\ UNCHANGED <<watchVars, writeVars, sendVars>>

\* lines 225-260: func(*args).call() raises an exception of the except clause,
\* whose args[0] is the diagnostic string
CallRaisesKnown ==
    /\ rc.pc = "idle"
    /\ \E type \in KnownCategories, message \in Diagnostics :
          rc' = [pc |-> "done", outputs |-> <<>>,
                 raised |-> <<Raises(type, message)>>,
                 outcome |-> <<Raises("Exception", Classify(message))>>]
    /\ UNCHANGED <<watchVars, writeVars, sendVars>>

\* line 225: func(*args).call() raises any other exception: no handler
CallRaisesOther ==
    /\ rc.pc = "idle"
    /\ \E type \in OtherCategories, message \in Diagnostics :
          rc' = [pc |-> "done", outputs |-> <<>>,
                 raised |-> <<Raises(type, message)>>,
                 outcome |-> <<Raises(type, message)>>]
    /\ UNCHANGED <<watchVars, writeVars, sendVars>>

\* the caller has the outcome
CallLeave ==
    /\ rc.pc = "done"
    /\ rc' = IdleRead
    /\ UNCHANGED <<watchVars, writeVars, sendVars>>

NextCall ==
    \/ CallReturns
    \/ CallRaisesKnown
    \/ CallRaisesOther
    \/ CallLeave

(***************************************************************************)
(* The specifications                                                      *)
(***************************************************************************)
Init == InitWatch /\ InitWrite /\ InitCall /\ InitSend

Next == NextWatch \/ NextWrite \/ NextCall

Spec == Init /\ [][Next]_vars

\* the confirmation tracker alone
SpecWatch == Init /\ [][NextWatch]_vars

InitQuiet == Init /\ appKwargs = "None"

\* the transaction submitter alone
SpecWrite == InitQuiet /\ [][NextWrite]_vars

\* the call executor alone
SpecCall == InitQuiet /\ [][NextCall]_vars

\* the confirmation tracker requested out-of-band only
SpecSpool == Init /\ [][NextSpool]_vars

\* Provider.send and the write_transaction call it makes
SpecSend == InitQuiet /\ [][NextSend]_vars

\* the inline tracker as a running process: its steps are taken when they can
\* be; nothing makes the chain advance
SpecLive == Init /\ [][NextLive]_vars /\ \A u \in Units : WF_vars(TrackerStep(u))

\* as Init, the tracked record being any record a submission creates
InitAnyRecord ==
    /\ dbTx \in SubmittedTransactions
    /\ chainHead = 0
    /\ chainReceipt = <<>>
    /\ dbBlocks = <<>>
    /\ spooled = <<>>
    /\ wpc = [u \in Units |-> "idle"]
    /\ wspool = [u \in Units |-> FALSE]
    /\ wkwargs = [u \in Units |-> "None"]
    /\ wtx = [u \in Units |-> NewTransaction]
    /\ wreceipt = [u \in Units |-> NoReceipt]
    /\ wblock_number = [u \in Units |-> 0]
    /\ wret = [u \in Units |-> "none"]
    /\ wreorged = [u \in Units |-> FALSE]
    /\ hooks = <<>>
    /\ saves = 0
    /\ savedFrom = <<>>
    /\ watchCalls = 0
    /\ appKwargs = "None"
    /\ InitWrite
    /\ InitCall
    /\ InitSend

\* the inline tracker on any record a submission creates
SpecRecords == InitAnyRecord /\ [][NextLive]_vars

\* the transaction submitter when its callers do not serialise the calls
SpecWriteRace == InitQuiet /\ [][NextWriteRace]_vars

(***************************************************************************)
(* The confirmation tracker: C1 - C3 (SpecWatch)                           *)
(***************************************************************************)
\* the positions of watch after its while loop
AfterLoop == {"finalize", "save", "refresh", "postdeploy"}

\* C1: watch(spool=False) persists a terminal state only when the last
\* receipt it polled and the head it read right after it are at least
\* confirmation_blocks apart; a record no watch has saved is still
\* unconfirmed; and the block recorded on the record is the block of that
\* last-polled receipt, also when the receipt's block changed between polls.
C1_FinalizesOnlyAtDepth ==
    /\ \A u \in Units :
          /\ wpc[u] \in AfterLoop =>
                wblock_number[u] - wreceipt[u].blockNumber >= confirmation_blocks
          /\ wpc[u] = "save" =>
                /\ wtx[u].accepted
                /\ dbBlocks[wtx[u].block[1]] = wreceipt[u].blockNumber
    /\ saves = 0 => (dbTx = NewTransaction /\ savedFrom = <<>>)
    /\ saves > 0 =>
          /\ dbTx.accepted
          /\ savedFrom[1].block_number - savedFrom[1].receipt.blockNumber
                >= confirmation_blocks
          /\ dbBlocks[dbTx.block[1]] = savedFrom[1].receipt.blockNumber
          /\ dbTx.status = <<savedFrom[1].receipt.status>>

\* a watch that polled the receipt in two different blocks (a reorg) has just
\* saved the record with the block of the last receipt
C1_Witness ==
    \E u \in Units :
        /\ wpc[u] = "refresh"
        /\ wreorged[u]
        /\ dbTx.accepted
        /\ dbBlocks[dbTx.block[1]] = wreceipt[u].blockNumber

\* a record the tracker finalized: confirmed-success or confirmed-failure
Terminal(t) == t.accepted /\ t.status \in {<<0>>, <<1>>}

\* C2: watch on a record that is already terminal (confirmed-success or
\* confirmed-failure) returns at once, with spool=True and with spool=False:
\* no receipt is polled, no job is dispatched, the record is not changed and
\* the completion hook is not called.
C2_TerminalShortCircuits ==
    [][\A u \in Units :
          (wpc[u] = "check" /\ Terminal(wtx[u]) /\ wpc'[u] # "check") =>
              /\ wpc'[u] = "returned"
              /\ wret'[u] = "True"
              /\ spooled' = spooled
              /\ dbTx' = dbTx
              /\ hooks' = hooks]_vars

\* C3: over any sequence and interleaving of watch / transaction_watch
\* invocations for one transaction, postdeploy is invoked at most once, and
\* every invocation of it comes after a successful save of the terminal state.
C3_HookAtMostOnce ==
    /\ Len(hooks) <= 1
    /\ \A i \in 1..Len(hooks) : hooks[i].saved >= 1 /\ Terminal(hooks[i].transaction)

(***************************************************************************)
(* The transaction submitter: C4 - C8 (SpecWrite)                          *)
(***************************************************************************)
\* the positions of an attempt after its options are built
AfterOptions ==
    {"build", "estbuild", "estimate", "rebuild", "sign", "send", "returned"}

\* the number of records of this record's sender created before record i
EarlierOf(i) ==
    Cardinality({j \in 1..(i - 1) : txRecords[j].sender = txRecords[i].sender})

C5_RetryBudget ==
    \A c \in Calls :
        /\ wt[c].attempt <= MaxAttempts
        /\ wt[c].pc = "returned" =>
              /\ wt[c].signed_txn # <<>>
              /\ wt[c].result = <<[hex |-> [keccak |-> wt[c].signed_txn[1].rawTransaction]]>>
              /\ wt[c].signed_txn[1].rawTransaction \in nodePool
              /\ wt[c].counts.sign = 1
              /\ wt[c].counts.send = 1
        /\ wt[c].pc = "raised" =>
              /\ wt[c].attempt = MaxAttempts
              /\ wt[c].err # NoError
              /\ wt[c].raised = wt[c].err

\* the failures stop at the seventh attempt: the call returns
C5_Witness ==
    \E c \in Calls : wt[c].pc = "returned" /\ wt[c].attempt = MaxAttempts

\* the node rejected the build or the broadcast of this attempt with a
\* ValueError that carries a message and is not the gas-allowance rejection
C6_Rejected(call) ==
    /\ call.pc = "failed"
    /\ call.fault[1].stage \in {"build", "send"}
    /\ call.fault[1].fault.type = "ValueError"
    /\ call.fault[1].fault.args.kind = "dict"
    /\ call.fault[1].fault.args.message \in {<<m>> : m \in Messages \ {GasAllowanceMessage}}

\* C6: a value-rejection error with a structured message (not the
\* gas-allowance rejection) surfaces as a validation failure with that
\* message, without a retry: after the attempt that was rejected no further
\* attempt is made.
C6_ValidationNotRetried ==
    [][\A c \in Calls :
          C6_Rejected(wt[c]) =>
              /\ wt'[c].pc \in {"failed", "raised"}
              /\ wt'[c].pc = "raised" => wt'[c].raised = wt[c].err]_vars

\* C7: after a gas-allowance rejection of buildTransaction and a successful
\* re-estimate there is exactly one rebuild, then one sign and one broadcast;
\* the escalation is entered at most once in an attempt.
C7_OneEscalationPerAttempt ==
    \A c \in Calls :
        LET k == wt[c].counts
        IN  /\ k.escalate <= 1
            /\ k.build <= 1 /\ k.estimate <= 1 /\ k.rebuild <= 1
            /\ k.sign <= 1 /\ k.send <= 1
            /\ k.rebuild = 1 => (k.escalate = 1 /\ k.estimate = 1)
            /\ wt[c].pc = "rebuild" => (k.escalate = 1 /\ k.rebuild = 0)
            /\ (wt[c].pc \in {"sign", "send", "returned"} /\ k.escalate = 1) =>
                  /\ k.rebuild = 1
                  /\ wt[c].built = <<[data |-> "tx", options |-> wt[c].options]>>
                  /\ wt[c].options.gas \in GasEstimates
            /\ (wt[c].pc = "returned" /\ k.escalate = 1) =>
                  (k.build = 1 /\ k.rebuild = 1 /\ k.sign = 1 /\ k.send = 1)

\* an attempt that escalated has rebuilt, signed and broadcast, and returned
C7_Witness ==
    \E c \in Calls : wt[c].pc = "returned" /\ wt[c].counts.escalate = 1

\* what the specification says leaves the body for a ValueError with these args
C8_Expected(args) ==
    IF args.kind = "dict" /\ args.message # <<>>
    THEN [type |-> "ValidationError", args |-> <<>>, message |-> args.message[1]]
    ELSE [type |-> "ValueError", args |-> args, message |-> ""]

\* C8: a ValueError raised anywhere in the build-sign-broadcast sequence whose
\* first argument is a mapping with 'message' becomes a ValidationError with
\* that message; one with no arguments, with a first argument that is no
\* mapping, or with a mapping without 'message' is re-raised as it is; and no
\* call returns an identifier after a failed broadcast.
C8_ValueErrorTranslation ==
    \A c \in Calls :
        /\ (/\ wt[c].pc = "failed"
            /\ wt[c].fault[1].fault.type = "ValueError"
            /\ wt[c].fault[1].stage # "nonce") =>
              wt[c].err = C8_Expected(wt[c].fault[1].fault.args)
        /\ wt[c].pc = "returned" =>
              wt[c].signed_txn[1].rawTransaction \in nodePool

(***************************************************************************)
(* The call executor: C9 - C10 (SpecCall)                                  *)
(***************************************************************************)
\* what the specification says one output is returned as: the hex string for a
\* bytes32, the decoded value itself for every other type
C9_Expected(type, value) == IF type = <<"bytes32">> THEN Hex(value) ELSE value

\* C9: a successful call returns a bare value when the output descriptor has
\* exactly one entry and a mapping keyed by output name, with one key per
\* entry, when it has two or more; in both cases a bytes32 output is
\* returned as its hex string and every other output unchanged.
C9_OutputShape ==
    (rc.pc = "done" /\ rc.raised = <<>>) =>
        LET outputs == rc.outputs
            result == CallResult(outputs)
            outcome == rc.outcome[1]
        IN  /\ Len(outputs) = 1 =>
                  outcome = Returns("value", C9_Expected(outputs[1].type, result))
            /\ Len(outputs) >= 2 =>
                  /\ outcome.kind = "return"
                  /\ outcome.shape = "mapping"
                  /\ DOMAIN outcome.value = {outputs[i].name : i \in 1..Len(outputs)}
                  /\ Cardinality(DOMAIN outcome.value) = Len(outputs)
                  /\ \A i \in 1..Len(outputs) :
                        outcome.value[outputs[i].name] =
                            C9_Expected(outputs[i].type, result[i])

\* the positions right after one escaped-byte group \xhh or \xhhh, with or
\* without a space behind it, that starts at position i
OneGroupEnds(s, i) ==
    {GroupEnd(s, i, n, sp) : n \in {2, 3}, sp \in {0, 1}} \ {0}

\* the positions right after a run of one or more such groups from position i
RECURSIVE GroupRunEnds(_, _)
GroupRunEnds(s, i) ==
    OneGroupEnds(s, i) \union UNION {GroupRunEnds(s, j) : j \in OneGroupEnds(s, i)}

\* where free text can start: behind a run of escaped-byte groups that
\* follows a b', at a character that is no backslash
FreeTextStarts(s) ==
    {j \in 1..Len(s) :
        /\ s[j] # Backslash
        /\ \E k \in 1..(Len(s) - 1) :
              s[k] = "b" /\ s[k + 1] = "'" /\ j \in GroupRunEnds(s, k + 2)}

\* the text from position j up to the next backslash or the end of s
FreeTextFrom(s, j) ==
    SubSeq(s, j, CHOOSE e \in j..Len(s) :
                    /\ \A k \in j..e : s[k] # Backslash
                    /\ (e = Len(s) \/ s[e + 1] = Backslash))

\* C10: a failure of the known category set ends in a generic Exception (no
\* value is returned) that carries the free text behind the escaped-byte
\* groups, and nothing else, when the diagnostic string has such groups
\* followed by free text, and the raw diagnostic string unchanged when it has
\* not; a failure outside the known set reaches the caller as it was raised.
C10_FailureClassification ==
    (rc.pc = "done" /\ rc.raised # <<>>) =>
        LET e == rc.raised[1]
            outcome == rc.outcome[1]
        IN  /\ outcome.kind = "raise"
            /\ e.type \in KnownCategories =>
                  /\ outcome.type = "Exception"
                  /\ FreeTextStarts(e.arg) = {} => outcome.arg = e.arg
                  /\ FreeTextStarts(e.arg) # {} =>
                        /\ \E j \in FreeTextStarts(e.arg) :
                              outcome.arg = FreeTextFrom(e.arg, j)
                        /\ outcome.arg # <<>>
                        /\ \A k \in 1..Len(outcome.arg) : outcome.arg[k] # Backslash
            /\ e.type \notin KnownCategories => outcome = e

\* a known failure whose diagnostic string has two escaped-byte groups and
\* free text behind them ended in an Exception that carries less than the
\* diagnostic string
C10_Witness ==
    /\ rc.pc = "done"
    /\ rc.raised # <<>>
    /\ rc.raised[1].type \in KnownCategories
    /\ \E k \in 1..Len(rc.raised[1].arg), j \in 1..Len(rc.raised[1].arg) :
          /\ j \in OneGroupEnds(rc.raised[1].arg, k)
          /\ OneGroupEnds(rc.raised[1].arg, j) # {}
    /\ FreeTextStarts(rc.raised[1].arg) # {}
    /\ rc.outcome[1].arg # rc.raised[1].arg

(***************************************************************************)
(* Nonces under interleaved submissions: C11 (SpecWriteRace)               *)
(***************************************************************************)
\* C11: a nonce assigned to a transaction of a sender is never assigned to
\* another transaction of that sender, and the nonces of a sender strictly
\* increase in submission order, also when two write_transaction calls of
\* the sender interleave and when an attempt is retried.
C11_NoncesStrictlyIncrease ==
    \A i \in 1..Len(txRecords), j \in 1..Len(txRecords) :
        (i < j /\ txRecords[i].sender = txRecords[j].sender) =>
            txRecords[i].nonce < txRecords[j].nonce

(***************************************************************************)
(* Out-of-band tracking: C12 (SpecSpool)                                   *)
(***************************************************************************)
\* the positions of watch(spool=False) between its first poll and its return
Tracking == {"receipt", "head", "finalize", "save", "refresh", "postdeploy"}

\* C12: after any sequence of watch(spool=True) calls on a record that is not
\* terminal, at most one tracker unit is polling or finalizing the record at
\* any time, and the record is written to a terminal state exactly once.
C12_SingleTracker ==
    /\ Cardinality({u \in Units : wpc[u] \in Tracking}) <= 1
    /\ saves <= 1

RecordOf(receipt, row) ==
    [NewTransaction EXCEPT !.gas = <<receipt.gasUsed>>,
                           !.block = <<row>>,
                           !.contract_address = receipt.contractAddress,
                           !.accepted = TRUE,
                           !.status = <<receipt.status>>]

\* C14: tracking out-of-band (watch(spool=True), the job, transaction_watch,
\* watch(spool=False) on the reloaded record) and tracking inline
\* (watch(spool=False)) end, for the same answers of the node, in the same
\* persisted record and the same postdeploy call: on either path the tracker
\* runs with spool=False, the application's postdeploy_kwargs and the
\* persisted record; what is persisted is a function of the last receipt
\* polled alone, and the hook gets the application's arguments.
C14_SameOutcomeOnBothPaths ==
    /\ \A u \in Units :
          wpc[u] \in Tracking =>
              /\ ~wspool[u]
              /\ wkwargs[u] = appKwargs
              /\ wtx[u].pk = dbTx.pk
    /\ saves > 0 =>
          /\ BlockRows(dbBlocks, savedFrom[1].receipt.blockNumber) # {}
          /\ dbTx = RecordOf(savedFrom[1].receipt,
                             GetOrCreateRow(dbBlocks, savedFrom[1].receipt.blockNumber))
    /\ \A i \in 1..Len(hooks) :
          /\ hooks[i].kwargs = HookKwargs(appKwargs)
          /\ \E row \in 1..Len(dbBlocks) :
                hooks[i].transaction = RecordOf(chainReceipt[1], row)

\* one out-of-band request, still in its caller's hands, and the job it
\* dispatched has tracked the transaction and called the hook with the
\* application's arguments
C14_Witness ==
    /\ watchCalls = 1
    /\ appKwargs = "kw"
    /\ Len(hooks) = 1
    /\ hooks[1].kwargs = "kw"
    /\ \E u \in Units, v \in Units :
          /\ wpc[u] = "returned" /\ wret[u] = "spooled"
          /\ wpc[v] = "returned" /\ wret[v] = "None"

(***************************************************************************)
(* Failures of save and of the hook: C15 (SpecWatch)                       *)
(***************************************************************************)
\* C15: when transaction.save() fails, watch ends with that failure, the
\* record is not written and postdeploy is not called; when postdeploy fails
\* after a successful save, watch ends with that failure, the persisted
\* record keeps its terminal outcome, and the invocation calls the hook no
\* second time: a failed invocation only returns to its caller.
C15_FailuresSurface ==
    [][\A u \in Units :
          /\ (wpc[u] = "save" /\ wpc'[u] # "save") =>
                \/ /\ wpc'[u] = "refresh"
                   /\ dbTx' = wtx[u]
                   /\ saves' = saves + 1
                \/ /\ wpc'[u] = "raised"
                   /\ wret'[u] = "DatabaseError"
                   /\ dbTx' = dbTx
                   /\ hooks' = hooks
          /\ (wpc[u] = "postdeploy" /\ wpc'[u] # "postdeploy") =>
                /\ Len(hooks') = Len(hooks) + 1
                /\ hooks'[Len(hooks')].saved >= 1
                /\ dbTx' = dbTx
                /\ Terminal(dbTx)
                /\ \/ wpc'[u] = "returned" /\ wret'[u] = "None"
                   \/ wpc'[u] = "raised" /\ wret'[u] = "HookError"
          /\ (wpc[u] = "raised" /\ wpc'[u] # "raised") =>
                /\ wpc'[u] = "idle"
                /\ hooks' = hooks
                /\ dbTx' = dbTx
                /\ spooled' = spooled]_vars

\* one invocation ended with the failure of save and another with the failure
\* of the hook: the record is terminal and the hook was called once
C15_Witness ==
    /\ Terminal(dbTx)
    /\ saves = 1
    /\ Len(hooks) = 1
    /\ \E u \in Units, v \in Units :
          /\ wpc[u] = "raised" /\ wret[u] = "DatabaseError"
          /\ wpc[v] = "raised" /\ wret[v] = "HookError"

(***************************************************************************)
(* Provider.send with an unknown function: C16 (SpecSend)                  *)
(***************************************************************************)
\* C16: send with a function name the contract does not have fails at once
\* with the not-found failure: the function is looked up once, no
\* write_transaction call is made (no nonce computed, nothing built, signed
\* or broadcast), and the failure is what the caller gets.
C16_UnknownFunctionFailsFirst ==
    (sd.function_name \notin ContractFunctions /\ sd.pc \notin {"idle", "resolve"}) =>
        /\ sd.pc = "raised"
        /\ sd.err = NotFound(sd.function_name, "Token")
        /\ sd.resolutions = 1
        /\ ~sd.wrote
        /\ \A c \in Calls : wt[c] = IdleCall

\* after a send that submitted a transaction, a send with a name the contract
\* does not have has failed
C16_Witness ==
    /\ sd.pc = "raised"
    /\ sd.function_name = "missing"
    /\ Len(txRecords) = 1
    /\ nodePool # {}

(***************************************************************************)
(* The depth-confirmation loop: C17 (SpecLive)                             *)
(***************************************************************************)
\* the node's receipt is confirmation_blocks deep
Deep ==
    /\ chainReceipt # <<>>
    /\ chainHead - chainReceipt[1].blockNumber >= confirmation_blocks

\* the invocation persisted the terminal state and called the hook
HookCalled(u) ==
    /\ wpc[u] \in {"returned", "raised"}
    /\ wret[u] \in {"None", "HookError"}
    /\ Terminal(dbTx)
    /\ hooks # <<>>

C18_FinalizeFrame ==
    [][/\ \A u \in Units :
            (wpc[u] = "save" /\ wpc'[u] = "refresh") =>
                /\ dbTx'.block # NoBlock
                /\ dbTx'.block[1] \in 1..Len(dbBlocks)
                /\ dbBlocks[dbTx'.block[1]] = wreceipt[u].blockNumber
                /\ dbTx' =
                      [dbTx EXCEPT
                          !.gas = <<wreceipt[u].gasUsed>>,
                          !.block = dbTx'.block,
                          !.accepted = TRUE,
                          !.status = <<wreceipt[u].status>>,
                          !.contract_address =
                              IF wreceipt[u].contractAddress # ""
                              THEN wreceipt[u].contractAddress
                              ELSE dbTx.contract_address]
       /\ dbTx' # dbTx =>
             \E u \in Units : wpc[u] = "save" /\ wpc'[u] = "refresh"]_vars

\* the record of a call to a deployed contract was finalized from a receipt
\* without a contract address: it has the receipt's gas and status and the
\* contract address it had
C18_Witness ==
    /\ saves = 1
    /\ savedFrom[1].receipt.contractAddress = ""
    /\ dbTx.contract_address = "0xT"
    /\ dbTx.function = "transfer"
    /\ dbTx.gas = <<savedFrom[1].receipt.gasUsed>>
    /\ dbTx.status = <<savedFrom[1].receipt.status>>

(***************************************************************************)
(* Build, sign, broadcast: C19 (SpecWrite)                                 *)
(***************************************************************************)
\* the steps of an attempt before its broadcast
BeforeSend == {"nonce", "build", "estbuild", "estimate", "rebuild", "sign"}

\* C19: in every attempt build comes before sign and sign before the
\* broadcast: what is signed is what was built, what is broadcast is what
\* was signed; an attempt whose build or sign failed has broadcast nothing;
\* an attempt broadcasts at most once; the identifier a call returns is the
\* hash of the signed payload the node accepted in that attempt; and after
\* the accepted broadcast the call makes no further attempt.
C19_BuildSignBroadcast ==
    /\ [](\A c \in Calls :
            /\ wt[c].counts.send <= 1
            /\ wt[c].pc \in BeforeSend => wt[c].counts.send = 0
            /\ wt[c].pc \in {"sign", "send", "returned"} =>
                  /\ wt[c].built # <<>>
                  /\ wt[c].built[1].options = wt[c].options
            /\ wt[c].pc \in {"send", "returned"} =>
                  /\ wt[c].signed_txn # <<>>
                  /\ wt[c].signed_txn[1].rawTransaction.signed = wt[c].built[1]
                  /\ wt[c].counts.sign = 1
            /\ (wt[c].pc = "failed" /\ wt[c].fault[1].stage \in BeforeSend) =>
                  /\ wt[c].counts.send = 0
                  /\ wt[c].result = <<>>
            /\ wt[c].pc = "returned" =>
                  /\ wt[c].counts.send = 1
                  /\ wt[c].signed_txn[1].rawTransaction \in nodePool
                  /\ wt[c].result =
                        <<[hex |-> [keccak |-> wt[c].signed_txn[1].rawTransaction]]>>)
    /\ [][\A c \in Calls :
            /\ (wt[c].pc = "returned" /\ wt'[c] # wt[c]) => wt'[c] = IdleCall
            /\ wt'[c].pc = "send" => wt[c].pc \in {"sign", "send"}
            /\ wt'[c].pc = "sign" => wt[c].pc \in {"build", "rebuild", "sign"}]_vars
    /\ [][nodePool' # nodePool =>
            \E c \in Calls :
                /\ wt[c].pc = "send"
                /\ wt'[c].pc = "returned"
                /\ nodePool' = nodePool \cup {wt[c].signed_txn[1].rawTransaction}]_vars

\* a call whose first attempt failed returned from its second attempt, and
\* the node has taken one payload, the one whose hash is returned
C19_Witness ==
    \E c \in Calls :
        /\ wt[c].pc = "returned"
        /\ wt[c].attempt = 2
        /\ txRecords = <<>>
        /\ nodePool = {wt[c].signed_txn[1].rawTransaction}

(***************************************************************************)
(* The out-of-band request in its caller's context: C20 (SpecSpool)        *)
(***************************************************************************)
\* C20: watch(spool=True) on a record that is not terminal puts one
\* transaction_watch job on the 'blockchain' queue, with the record's pk,
\* its class and module and the postdeploy_kwargs, and returns: in the
\* caller's context no receipt is polled, no head is read, no field of the
\* record or of the object changes and postdeploy is not called.
C20_SpoolOnlyDispatches ==
    /\ [](\A u \in Units :
            wspool[u] =>
                /\ wpc[u] \in {"check", "returned"}
                /\ wreceipt[u] = NoReceipt
                /\ wblock_number[u] = 0
                /\ wkwargs[u] = appKwargs)
    /\ [][\A u \in Units :
            (/\ wpc[u] = "check"
             /\ wspool[u]
             /\ ~Terminal(wtx[u])
             /\ wpc'[u] # "check") =>
                /\ wpc'[u] = "returned"
                /\ wret'[u] = "spooled"
                /\ spooled' =
                      Append(spooled,
                             [callback |-> "djblockchain.ethereum.transaction_watch",
                              queue |-> "blockchain",
                              pk |-> dbTx.pk,
                              module |-> "app.models",
                              cls |-> "Transaction",
                              postdeploy_kwargs |-> appKwargs])
                /\ dbTx' = dbTx
                /\ dbBlocks' = dbBlocks
                /\ wtx' = wtx
                /\ hooks' = hooks
                /\ saves' = saves]_vars

\* the request returned to its caller with the job on the queue, carrying
\* the application's arguments, and the record as it was
C20_Witness ==
    \E u \in Units :
        /\ wpc[u] = "returned"
        /\ wret[u] = "spooled"
        /\ appKwargs = "kw"
        /\ Len(spooled) = 1
        /\ spooled[1].postdeploy_kwargs = "kw"
        /\ spooled[1].pk = dbTx.pk
        /\ dbTx = NewTransaction
====
